---- MODULE Spec2Model ----
(***************************************************************************)
(* Model of bms_requirements_app.py: a two-step Streamlit form.  Every     *)
(* user interaction reruns the whole script top to bottom; one action of   *)
(* this model is one interaction followed by the complete script run.      *)
(*                                                                         *)
(* Numbers are fixed-point integers:                                       *)
(*   cell_nominal_v, nominal_pack_voltage_v, chemistry table : millivolts  *)
(*   pack_capacity_ah, max_*_current_a, balancing_power_w,                 *)
(*   logging_rate_hz                                         : tenths      *)
(*   ov_th_v, uv_th_v                                        : hundredths  *)
(*   everything else                                         : units       *)
(* Option labels containing non-ASCII characters are written in ASCII.     *)
(***************************************************************************)
EXTENDS Integers, Sequences, FiniteSets, TLC

VARIABLES
  session_state,  \* st.session_state: step, data, chem_cell_nominal_map
  up,             \* the file held by the sidebar file_uploader ("none" if empty)
  rendered,       \* which step block the last script run rendered (0: none)
  load_outcome,   \* message of the upload handler in the last run
  captions,       \* labels of the "Please fill" captions of the last run
  next_disabled,  \* the disabled flag the Next button was rendered with
  fault,          \* exception that ended the last script run, "none" if none
  sheet_rows,     \* rows this session appended to the remote spreadsheet
  save_outcome,   \* last recorded outcome of a save
  last_calc,      \* arguments and result of the last calc_nominal_pack_voltage
  lastOp          \* the button whose click caused the last script run ("Run" if
                  \* the run had another cause), or the out-of-range entry made

vars == <<session_state, up, rendered, load_outcome, captions, next_disabled,
          fault, sheet_rows, save_outcome, last_calc, lastOp>>

\* ---------------------------------------------------------------- bounds
\* series counts tried are whole 96-cell modules: 96, ..., 96 * MaxModules
MaxModules == 1

\* ------------------------------------------------------- field registry
EmptyMap == [k \in {} |-> 0]

Step1Text == {"project_name", "company", "contact_email"}

Step1Select == {"application", "chemistry", "ingress_protection",
                "vibration_standard", "asil_level"}

Step1Number == {"cell_nominal_v", "series_cells", "parallel_cells",
                "pack_capacity_ah", "max_cont_current_a", "max_peak_current_a",
                "min_temp_c", "max_temp_c"}

Step1Multi == {"safety_standards", "interfaces"}

DerivedKey == "nominal_pack_voltage_v"

Step1Keys == Step1Text \cup Step1Select \cup Step1Number \cup Step1Multi
             \cup {DerivedKey}

Step2Select == {"soc_method", "soh_method", "balancing", "redundancy",
                "target_hardware", "proto_timeline", "annual_volume",
                "budget_band"}

Step2Number == {"balancing_power_w", "logging_rate_hz", "ov_th_v", "uv_th_v",
                "ocd_a", "occ_a", "ot_c", "ut_c"}

Step2Check == {"ota_updates", "precharge", "imd_required"}

Step2Multi == {"security", "contactors", "thermal_mgmt", "diag_features"}

Step2Keys == Step2Select \cup Step2Number \cup Step2Check \cup Step2Multi

TextKeys == Step1Text
SelectKeys == Step1Select \cup Step2Select
NumberKeys == Step1Number \cup Step2Number
PlainKeys == Step1Multi \cup Step2Multi \cup Step2Check

\* the default each widget falls back to when the key is absent from data
Default ==
  [project_name |-> "", company |-> "", contact_email |-> "",
   application |-> "Passenger EV", chemistry |-> "NMC",
   cell_nominal_v |-> 0, series_cells |-> 0, parallel_cells |-> 0,
   pack_capacity_ah |-> 0, max_cont_current_a |-> 0, max_peak_current_a |-> 0,
   min_temp_c |-> 0, max_temp_c |-> 40,
   ingress_protection |-> "IP67", vibration_standard |-> "Not sure",
   safety_standards |-> <<>>, asil_level |-> "None/Not defined",
   interfaces |-> <<"CAN FD">>,
   nominal_pack_voltage_v |-> 0,
   soc_method |-> "OCV + Model", soh_method |-> "Data-driven",
   balancing |-> "Passive (bleed)", balancing_power_w |-> 5,
   logging_rate_hz |-> 10, ota_updates |-> TRUE,
   security |-> <<"Secure Boot", "Signed Firmware">>,
   ov_th_v |-> 425, uv_th_v |-> 250, ocd_a |-> 400, occ_a |-> 200,
   ot_c |-> 80, ut_c |-> -10,
   precharge |-> TRUE, contactors |-> <<"Main + / Main -">>,
   imd_required |-> TRUE, thermal_mgmt |-> <<"Fan PWM">>,
   redundancy |-> "Enhanced", diag_features |-> <<"DTCs (ISO 14229)">>,
   target_hardware |-> "Not specified", proto_timeline |-> "2-4 months",
   annual_volume |-> "1k-10k", budget_band |-> "Undisclosed"]

Options ==
  [application |-> {"Passenger EV", "2W/3W", "Commercial EV",
                    "Energy Storage (ESS)", "Industrial Vehicle", "Drone/UAV",
                    "Other"},
   chemistry |-> {"NMC", "NCA", "LFP", "LTO", "Other"},
   ingress_protection |-> {"IP54", "IP65", "IP67", "IP69K", "Not sure"},
   vibration_standard |-> {"IEC 60068", "ISO 16750", "OEM-specific", "Not sure"},
   asil_level |-> {"None/Not defined", "QM", "ASIL A", "ASIL B", "ASIL C",
                   "ASIL D"},
   soc_method |-> {"Coulomb Counting", "OCV + Model", "Kalman/UKF",
                   "Neural/Fusion", "Not sure"},
   soh_method |-> {"Rint/Impedance", "Capacity Fade Tracking", "Data-driven",
                   "Hybrid", "Not sure"},
   balancing |-> {"None", "Passive (bleed)", "Active (inductive/capacitive)"},
   redundancy |-> {"Basic", "Enhanced", "Safety-critical"},
   target_hardware |-> {"Not specified", "TI BQ76952", "NXP MC33772/33771",
                        "ADI LTC6811/6813", "Other"},
   proto_timeline |-> {"< 2 months", "2-4 months", "4-6 months", "> 6 months"},
   annual_volume |-> {"<100", "100-1k", "1k-10k", "10k-100k", ">100k"},
   budget_band |-> {"Undisclosed", "INR <10L", "INR 10-50L", "INR 50L-2Cr",
                    "INR >2Cr"}]

\* min_value / max_value of every number_input
NumRange ==
  [cell_nominal_v |-> <<0, 10000>>, series_cells |-> <<0, 1000>>,
   parallel_cells |-> <<0, 1000>>, pack_capacity_ah |-> <<0, 100000>>,
   max_cont_current_a |-> <<0, 100000>>, max_peak_current_a |-> <<0, 100000>>,
   min_temp_c |-> <<-60, 100>>, max_temp_c |-> <<-60, 150>>,
   balancing_power_w |-> <<0, 200>>, logging_rate_hz |-> <<0, 10000>>,
   ov_th_v |-> <<200, 600>>, uv_th_v |-> <<100, 400>>,
   ocd_a |-> <<0, 20000>>, occ_a |-> <<0, 20000>>,
   ot_c |-> <<20, 120>>, ut_c |-> <<-60, 40>>]

\* ------------------------------------------------------------- helpers
InitDefaults ==
  [step |-> 1,
   data |-> EmptyMap,
   chem_cell_nominal_map |->
     [NMC |-> 3600, NCA |-> 3600, LFP |-> 3200, LTO |-> 2400, Other |-> 3600]]

init_state(ss) ==
  [k \in DOMAIN ss \cup DOMAIN InitDefaults |->
     IF k \in DOMAIN ss THEN ss[k] ELSE InitDefaults[k]]

Min2(a, b) == IF a < b THEN a ELSE b
Max2(a, b) == IF a > b THEN a ELSE b

next_step(ss) == [ss EXCEPT !["step"] = Min2(2, ss["step"] + 1)]

prev_step(ss) == [ss EXCEPT !["step"] = Max2(1, ss["step"] - 1)]

ResetKeepsData(ss) == init_state([k \in DOMAIN ss \ {"step"} |-> ss[k]])

\* every key is deleted, then init_state() seeds the defaults again
reset_form(ss) == init_state(EmptyMap)

kv(d, k, default) == IF k \in DOMAIN d THEN d[k] ELSE default

set_kv(d, k, v) == [j \in DOMAIN d \cup {k} |-> IF j = k THEN v ELSE d[j]]

\* Python round(x, 2) on a value held in millivolts: the nearest multiple of
\* 10 mV.  An exact decimal tie goes to the even multiple; on floats a tie is
\* decided by the binary value of the product, so the inputs below are chosen
\* so that no product ends in 5 mV.
Round2(x) ==
  LET q == x \div 10
      r == x % 10
  IN  IF r < 5 THEN 10 * q
      ELSE IF r > 5 THEN 10 * (q + 1)
      ELSE IF q % 2 = 0 THEN 10 * q ELSE 10 * (q + 1)

CalcIgnoresOverride(map, series_cells, chem, cell_nominal_override) ==
  Round2(series_cells * (IF chem \in DOMAIN map THEN map[chem] ELSE 3600))

\* `override or base`: a zero override is falsy and selects the table value;
\* `series_cells or 0` is series_cells for every integer
calc_nominal_pack_voltage(map, series_cells, chem, cell_nominal_override) ==
  LET base == IF chem \in DOMAIN map THEN map[chem] ELSE 3600
      cell_nominal == IF cell_nominal_override # 0
                      THEN cell_nominal_override ELSE base
  IN  Round2(series_cells * cell_nominal)

\* ------------------------------------------------------ validation gate
\* lines 134-139, in declaration order
GateChecks(d) ==
  << [ok |-> kv(d, "project_name", "") # "", label |-> "Project / Program Name"],
     [ok |-> kv(d, "company", "") # "", label |-> "Company / Team"],
     [ok |-> kv(d, "contact_email", "") # "", label |-> "Primary Contact Email"],
     [ok |-> kv(d, "series_cells", 0) > 0, label |-> "Cells in series (S)"],
     [ok |-> kv(d, "pack_capacity_ah", 0) > 0,
      label |-> "Target pack capacity (Ah)"],
     [ok |-> kv(d, "max_cont_current_a", 0) > 0,
      label |-> "Max continuous current (A)"] >>

RECURSIVE FirstFailing(_, _)
FirstFailing(checks, i) ==
  IF i > Len(checks) THEN <<>>
  ELSE IF ~checks[i].ok THEN <<checks[i].label>>
  ELSE FirstFailing(checks, i + 1)

RequiredCaptionsFirstOnly(d) == FirstFailing(GateChecks(d), 1)

\* required() emits one caption per failing check and the loop never stops
\* early (req_ok &= ... evaluates every call)
RequiredCaptions(d) ==
  LET checks == GateChecks(d)
      Failing(c) == ~c.ok
      failing == SelectSeq(checks, Failing)
  IN  [i \in 1..Len(failing) |-> failing[i].label]

req_ok(d) == \A i \in 1..Len(GateChecks(d)) : GateChecks(d)[i].ok

NextAlwaysEnabled(d) == FALSE

\* disabled=not req_ok of the Next button
NextDisabled(d) == ~req_ok(d)

\* ------------------------------------------------------------- widgets
\* e is the edit of this interaction: a map from the edited key to the value
\* the widget delivers, empty if no widget of the block was edited
text_input(d, k, e) == IF k \in DOMAIN e THEN e[k] ELSE kv(d, k, "")

selectbox(d, k, e) ==
  IF k \in DOMAIN e THEN e[k]
  ELSE IF k \in DOMAIN d /\ d[k] \in Options[k] THEN d[k]
  ELSE Default[k]

number_input(d, k, e) == IF k \in DOMAIN e THEN e[k] ELSE kv(d, k, Default[k])

plain_widget(d, k) == kv(d, k, Default[k])

Widget(d, k, e) ==
  IF k \in TextKeys THEN text_input(d, k, e)
  ELSE IF k \in SelectKeys THEN selectbox(d, k, e)
  ELSE IF k \in NumberKeys THEN number_input(d, k, e)
  ELSE plain_widget(d, k)

Clamp(k, v) == Max2(NumRange[k][1], Min2(NumRange[k][2], v))

InRange(k, v) == NumRange[k][1] <= v /\ v <= NumRange[k][2]

NumberEntryUnchecked(k, cur, typed) == {typed}

\* What a number_input declared with min_value/max_value can deliver when the
\* user types `typed` while it shows `cur`.  The source fixes only the range;
\* whether the widget clamps an out-of-range entry or refuses it is not
\* decided by the source, so both outcomes are possible.
NumberEntry(k, cur, typed) ==
  IF InRange(k, typed) THEN {typed} ELSE {cur, Clamp(k, typed)}

\* ------------------------------------------------------------- renders
Step1Widgets(d, e) ==
  [k \in DOMAIN d \cup (Step1Keys \ {DerivedKey}) |->
     IF k \in Step1Keys \ {DerivedKey} THEN Widget(d, k, e) ELSE d[k]]

\* line 127: the derived field is written from the values just stored
Step1Derive(d0, map) ==
  CHOOSE r \in { set_kv(d, DerivedKey,
                        calc_nominal_pack_voltage(map, kv(d, "series_cells", 0),
                                                  kv(d, "chemistry", "NMC"),
                                                  kv(d, "cell_nominal_v", 0)))
                 : d \in {d0} } : TRUE

Step1RenderStale(d, map, e) == Step1Widgets(Step1Derive(d, map), e)

Step1Render(d, map, e) == Step1Derive(Step1Widgets(d, e), map)

Step2Render(d, e) ==
  [k \in DOMAIN d \cup Step2Keys |->
     IF k \in Step2Keys THEN Widget(d, k, e) ELSE d[k]]

\* ------------------------------------------------------- upload handler
\* "bad" is not JSON; "acme" is {"project_name": "Acme"}; "nulls" is a document
\* whose required fields are empty or zero and whose parallel_cells (5000) is
\* above the widget's max_value
Files == {"none", "bad", "acme", "nulls"}

WellFormed(f) == f \in {"acme", "nulls"}

\* the mapping a well-formed file denotes
Doc(f) ==
  IF f = "acme" THEN [project_name |-> "Acme"]
  ELSE [project_name |-> "", company |-> "", contact_email |-> "",
        series_cells |-> 0, pack_capacity_ah |-> 0, max_cont_current_a |-> 0,
        parallel_cells |-> 5000]

\* the module imports streamlit, datetime and typing only: the name json is
\* unbound wherever the script uses it
JsonImported == FALSE

json_load(f) ==
  IF ~JsonImported THEN [ok |-> FALSE, exc |-> "NameError"]
  ELSE IF WellFormed(f) THEN [ok |-> TRUE, value |-> Doc(f)]
  ELSE [ok |-> FALSE, exc |-> "JSONDecodeError"]

UploadHandlerClobber(d, f) ==
  IF f = "none" THEN [data |-> d, outcome |-> "none"]
  ELSE LET r == json_load(f)
       IN  IF r.ok THEN [data |-> r.value, outcome |-> "success"]
           ELSE [data |-> EmptyMap, outcome |-> "error"]

\* try: data = json.load(up); success  except Exception: error
UploadHandler(d, f) ==
  IF f = "none" THEN [data |-> d, outcome |-> "none"]
  ELSE LET r == json_load(f)
       IN  IF r.ok THEN [data |-> r.value, outcome |-> "success"]
           ELSE [data |-> d, outcome |-> "error"]

\* download_json_button evaluates json.dumps at the end of the Step 2 block
download_json_button(d) == IF JsonImported THEN "none" ELSE "NameError"

\* ------------------------------------------------------ one script run
NoCalc == [called |-> FALSE, series_cells |-> 0, chem |-> "", override |-> 0,
           result |-> 0]

Op(name) == [op |-> name, key |-> "", typed |-> 0]

\* One run of the script (lines 60-214) on session ss0 with file f in the
\* uploader; resetClicked is the value st.button("Reset") returns in this run
\* and e the widget edit that triggered the run.
RunScript(ss0, f, resetClicked, e, op) ==
  \E ss \in {init_state(ss0)} :
      /\ up' = f
      /\ lastOp' = op
      /\ UNCHANGED <<sheet_rows, save_outcome>>
      /\ IF resetClicked
         THEN \* reset_form(); st.stop()
              /\ session_state' = reset_form(ss)
              /\ rendered' = 0
              /\ load_outcome' = "none"
              /\ captions' = <<>>
              /\ next_disabled' = TRUE
              /\ fault' = "none"
              /\ last_calc' = NoCalc
         ELSE \E ld \in {UploadHandler(ss["data"], f)} :
                  /\ load_outcome' = ld.outcome
                  /\ rendered' = ss["step"]
                  /\ IF ss["step"] = 1
                     THEN \E d1 \in {Step1Widgets(ld.data, e)} :
                          \E d2 \in {Step1Render(ld.data,
                                                 ss["chem_cell_nominal_map"], e)} :
                              /\ session_state' = [ss EXCEPT !["data"] = d2]
                              /\ last_calc' =
                                   [called |-> TRUE,
                                    series_cells |-> kv(d1, "series_cells", 0),
                                    chem |-> kv(d1, "chemistry", "NMC"),
                                    override |-> kv(d1, "cell_nominal_v", 0),
                                    result |-> d2[DerivedKey]]
                              /\ captions' = RequiredCaptions(d2)
                              /\ next_disabled' = NextDisabled(d2)
                              /\ fault' = "none"
                     ELSE \E d2 \in {Step2Render(ld.data, e)} :
                              /\ session_state' = [ss EXCEPT !["data"] = d2]
                              /\ last_calc' = NoCalc
                              /\ captions' = <<>>
                              /\ next_disabled' = TRUE
                              /\ fault' = download_json_button(d2)

\* ------------------------------------------------------ inputs (small sets)
TextChoices ==
  [project_name |-> {"", "Acme"}, company |-> {"", "Acme Corp"},
   contact_email |-> {"", "a@b.com"}]

SelectChoices ==
  [chemistry |-> {"NMC", "LFP"}]

TypedNumbers ==
  [series_cells |-> {0, 1001} \cup {96 * i : i \in 1..MaxModules},
   cell_nominal_v |-> {0, 3337},
   pack_capacity_ah |-> {0, 500},
   max_cont_current_a |-> {0, 1000},
   ut_c |-> {-61}]

RenderedKeys == IF rendered = 1 THEN Step1Keys
                ELSE IF rendered = 2 THEN Step2Keys ELSE {}

\* ------------------------------------------------------------- actions
\* the first run of a session, or a rerun without any widget change
Rerun == RunScript(session_state, up, FALSE, EmptyMap, Op("Run"))

\* the Reset button is rendered by every run, before st.stop()
ClickReset == RunScript(session_state, up, TRUE, EmptyMap, Op("Reset"))

Upload(f) ==
  /\ rendered # 0
  /\ RunScript(session_state, f, FALSE, EmptyMap, Op("Run"))

RemoveUpload ==
  /\ rendered # 0
  /\ up # "none"
  /\ RunScript(session_state, "none", FALSE, EmptyMap, Op("Run"))

EditText(k, v) ==
  /\ k \in RenderedKeys
  /\ RunScript(session_state, up, FALSE, k :> v, Op("Run"))

EditSelect(k, v) ==
  /\ k \in RenderedKeys
  /\ RunScript(session_state, up, FALSE, k :> v, Op("Run"))

EditNumber(k, typed) ==
  /\ k \in RenderedKeys
  /\ \E v \in NumberEntry(k, session_state["data"][k], typed) :
       RunScript(session_state, up, FALSE, k :> v,
                 IF InRange(k, typed) THEN Op("Run")
                 ELSE [op |-> "EditOutOfRange", key |-> k, typed |-> typed])

\* on_click=next_step runs before the script; a disabled button does nothing
ClickNext ==
  /\ rendered = 1
  /\ IF next_disabled
     THEN /\ lastOp' = Op("AdvanceBlocked")
          /\ UNCHANGED <<session_state, up, rendered, load_outcome, captions,
                         next_disabled, fault, sheet_rows, save_outcome,
                         last_calc>>
     ELSE RunScript(next_step(session_state), up, FALSE, EmptyMap,
                    Op("Advance"))

\* on_click=prev_step
ClickBack ==
  /\ rendered = 2
  /\ RunScript(prev_step(session_state), up, FALSE, EmptyMap, Op("Retreat"))

\* "Finish & Show Summary" has no callback and its return value is unused
ClickFinish ==
  /\ rendered = 2
  /\ RunScript(session_state, up, FALSE, EmptyMap, Op("Submit"))

Init ==
  /\ session_state = init_state(EmptyMap)
  /\ up = "none"
  /\ rendered = 0
  /\ load_outcome = "none"
  /\ captions = <<>>
  /\ next_disabled = TRUE
  /\ fault = "none"
  /\ sheet_rows = 0
  /\ save_outcome = "none"
  /\ last_calc = NoCalc
  /\ lastOp = Op("Init")

Next ==
  \/ Rerun
  \/ ClickReset
  \/ \E f \in Files \ {"none"} : Upload(f)
  \/ RemoveUpload
  \/ \E k \in DOMAIN TextChoices : \E v \in TextChoices[k] : EditText(k, v)
  \/ \E k \in DOMAIN SelectChoices : \E v \in SelectChoices[k] : EditSelect(k, v)
  \/ \E k \in DOMAIN TypedNumbers : \E t \in TypedNumbers[k] : EditNumber(k, t)
  \/ ClickNext
  \/ ClickBack
  \/ ClickFinish

Spec == Init /\ [][Next]_vars

step == session_state["step"]
data == session_state["data"]

\* ======================================================== the claims
GateLabels ==
  << "Project / Program Name", "Company / Team", "Primary Contact Email",
     "Cells in series (S)", "Target pack capacity (Ah)",
     "Max continuous current (A)" >>

\* the six required-field predicates on the stored mapping, in order
GateHolds(d) ==
  << d["project_name"] # "", d["company"] # "", d["contact_email"] # "",
     d["series_cells"] > 0, d["pack_capacity_ah"] > 0,
     d["max_cont_current_a"] > 0 >>

RECURSIVE FailingFrom(_, _)
FailingFrom(d, i) ==
  IF i > 6 THEN <<>>
  ELSE (IF GateHolds(d)[i] THEN <<>> ELSE <<GateLabels[i]>>) \o FailingFrom(d, i + 1)

\* C1: the step changes from 1 to 2 only by an Advance taken while all six
\* required fields of the current mapping are valid; an Advance attempted while
\* the gate fails changes neither the step nor the mapping and raises nothing.
C1_AdvanceGated ==
  [][ /\ (step = 1 /\ step' = 2) =>
           (lastOp'.op = "Advance" /\ rendered = 1 /\ \A i \in 1..6 : GateHolds(data)[i])
      /\ (rendered = 1 /\ \E i \in 1..6 : ~GateHolds(data)[i]) => step' = 1
      /\ lastOp'.op = "AdvanceBlocked" =>
           (session_state' = session_state /\ fault' = "none" /\ rendered' = 1)
    ]_vars

C1_Witness ==
  /\ lastOp.op = "Advance"
  /\ step = 2
  /\ rendered = 2

\* C2: after a Step 1 run the Next button is enabled iff all six required
\* fields are valid, and the captions are exactly the labels of the failing
\* fields, all of them, in declaration order.
C2_GateAllSix ==
  rendered = 1 =>
    /\ next_disabled = ~(\A i \in 1..6 : GateHolds(data)[i])
    /\ captions = FailingFrom(data, 1)
    /\ \A i \in 1..6 :
         (~GateHolds(data)[i] /\ \A j \in (1..6) \ {i} : GateHolds(data)[j])
           => (next_disabled /\ captions = <<GateLabels[i]>>)

C2_Witness ==
  /\ rendered = 1
  /\ data["project_name"] = ""
  /\ data["company"] = "Acme Corp"
  /\ data["contact_email"] = "a@b.com"
  /\ data["series_cells"] = 96
  /\ data["pack_capacity_ah"] = 500
  /\ data["max_cont_current_a"] = 1000
  /\ next_disabled
  /\ captions = <<"Project / Program Name">>

\* C3: after a Reset the session is the freshly initialised one: step 1, an
\* answer mapping without any entry (every field reads as its default) and the
\* chemistry table with its initial contents.
C3_ResetFresh ==
  lastOp.op = "Reset" =>
    /\ DOMAIN session_state = {"step", "data", "chem_cell_nominal_map"}
    /\ step = 1
    /\ DOMAIN data = {}
    /\ \A k \in Step1Keys \cup Step2Keys : kv(data, k, Default[k]) = Default[k]
    /\ session_state["chem_cell_nominal_map"] =
         [NMC |-> 3600, NCA |-> 3600, LFP |-> 3200, LTO |-> 2400, Other |-> 3600]

\* a Reset taken after a file was put in the uploader, so after a run that
\* rendered a step and stored its fields
C3_Witness ==
  /\ lastOp.op = "Reset"
  /\ up # "none"
  /\ rendered = 0

\* C4: putting a file that is not JSON in the uploader leaves the mapping and
\* the step as they were, reports an error, and the run goes on to render the
\* current step, ending as the runs of that step ended before the upload.
C4_BadUploadKeepsData ==
  [][ (rendered # 0 /\ up # "bad" /\ up' = "bad") =>
        /\ session_state' = session_state
        /\ load_outcome' = "error"
        /\ rendered' = step'
        /\ fault' = fault
    ]_vars

C4_Witness ==
  /\ up = "bad"
  /\ load_outcome = "error"
  /\ rendered = 1
  /\ data["project_name"] = "Acme"

\* C5: with a well-formed document in the uploader the load succeeds and the
\* mapping is the document: its keys read as its values, every other field
\* reads as its default.
C5_BulkLoadReplaces ==
  (up = "acme" /\ rendered # 0) =>
    /\ load_outcome = "success"
    /\ data["project_name"] = "Acme"
    /\ \A k \in (DOMAIN data \cap (Step1Keys \cup Step2Keys)) \ {"project_name"} :
         data[k] = Default[k]

C9_SubmitAppends ==
  lastOp.op = "Submit" =>
    /\ step = 2
    /\ save_outcome \in {"ok", "missing configuration"}
    /\ save_outcome = "ok" => sheet_rows >= 1

\* C10: putting a document whose required fields are empty or zero in the
\* uploader while in Step 2 loads it, keeps the step, and leaves the gate
\* false on the mapping.
C10_LoadInStep2 ==
  [][ (rendered = 2 /\ up # "nulls" /\ up' = "nulls") =>
        /\ step' = 2
        /\ load_outcome' = "success"
        /\ ~req_ok(data')
    ]_vars

====
